---- MODULE Spec2Model ----
(***************************************************************************)
(* Verification model of train_psgd_dp.py: the projected DP-SGD step       *)
(* (P_SGD_DP), the clipping kernels (clip_column / inplace_clipping), the  *)
(* vector-to-parameter writers (update_grad / update_param) and the        *)
(* training loop that drives them.                                         *)
(*                                                                         *)
(* Tensor elements are modelled as extended rationals: exact fractions     *)
(* plus the IEEE-754 special values +inf, -inf and NaN, with the IEEE      *)
(* rules for x/0, 0/0, 0*inf and comparisons with NaN.  Rounding error is  *)
(* not modelled; inputs are chosen so that every L2 norm taken is the      *)
(* square root of a perfect square.                                        *)
(***************************************************************************)
EXTENDS Integers, Sequences, FiniteSets, TLC

\* ------------------------------------------------------------------ bounds
MaxRows == 2
MaxBatches == 2
MaxExtra == 2
MaxAmbient == 2

\* ------------------------------------------------------- extended rationals
RECURSIVE GCD(_, _)
GCD(a, b) == IF b = 0 THEN a ELSE GCD(b, a % b)

Abs(x) == IF x < 0 THEN -x ELSE x

Q(n, d) ==
  LET g == GCD(Abs(n), Abs(d))
      s == IF d < 0 THEN -1 ELSE 1
  IN [t |-> "fin", n |-> s * (IF n < 0 THEN -(Abs(n) \div g) ELSE Abs(n) \div g),
      d |-> Abs(d) \div g]

I(n) == [t |-> "fin", n |-> n, d |-> 1]
NaN == [t |-> "nan", n |-> 0, d |-> 1]
PInf == [t |-> "pinf", n |-> 0, d |-> 1]
NInf == [t |-> "ninf", n |-> 0, d |-> 1]

IsFin(a) == a.t = "fin"
IsNaN(a) == a.t = "nan"
IsZero(a) == a.t = "fin" /\ a.n = 0

\* sign of a non-NaN value; zero counts as +0
Sgn(a) == CASE a.t = "pinf" -> 1
            [] a.t = "ninf" -> -1
            [] OTHER -> IF a.n < 0 THEN -1 ELSE 1

SInf(s) == IF s < 0 THEN NInf ELSE PInf

FNeg(a) == CASE a.t = "fin" -> [a EXCEPT !.n = 0 - a.n]
             [] a.t = "pinf" -> NInf
             [] a.t = "ninf" -> PInf
             [] OTHER -> NaN

FAdd(a, b) ==
  CASE IsNaN(a) \/ IsNaN(b) -> NaN
    [] IsFin(a) /\ IsFin(b) -> Q(a.n * b.d + b.n * a.d, a.d * b.d)
    [] IsFin(a) -> b
    [] IsFin(b) -> a
    [] OTHER -> IF a.t = b.t THEN a ELSE NaN

FSub(a, b) == FAdd(a, FNeg(b))

FMul(a, b) ==
  CASE IsNaN(a) \/ IsNaN(b) -> NaN
    [] IsFin(a) /\ IsFin(b) -> Q(a.n * b.n, a.d * b.d)
    [] IsZero(a) \/ IsZero(b) -> NaN
    [] OTHER -> SInf(Sgn(a) * Sgn(b))

FDiv(a, b) ==
  CASE IsNaN(a) \/ IsNaN(b) -> NaN
    [] IsFin(a) /\ IsFin(b) ->
         IF b.n = 0
         THEN (IF a.n = 0 THEN NaN ELSE SInf(Sgn(a)))
         ELSE Q(a.n * b.d, a.d * b.n)
    [] IsFin(a) -> I(0)
    [] IsFin(b) -> SInf(Sgn(a) * Sgn(b))
    [] OTHER -> NaN

Ord(a) == CASE a.t = "pinf" -> 1 [] a.t = "ninf" -> -1 [] OTHER -> 0

\* a > b ; FALSE whenever a NaN is involved
FGt(a, b) ==
  CASE IsNaN(a) \/ IsNaN(b) -> FALSE
    [] IsFin(a) /\ IsFin(b) -> a.n * b.d > b.n * a.d
    [] OTHER -> Ord(a) > Ord(b)

FLe(a, b) == ~IsNaN(a) /\ ~IsNaN(b) /\ ~FGt(a, b)

ISqrt(x) == CHOOSE r \in 0..x : r * r = x

FSqrt(a) ==
  CASE a.t = "nan" \/ a.t = "ninf" -> NaN
    [] a.t = "pinf" -> PInf
    [] OTHER -> IF a.n < 0 THEN NaN ELSE Q(ISqrt(a.n), ISqrt(a.d))

\* ------------------------------------------------------- vectors, matrices
RECURSIVE FSum(_)
FSum(v) == IF v = <<>> THEN I(0) ELSE FAdd(Head(v), FSum(Tail(v)))

VScale(v, s) == [j \in 1..Len(v) |-> FMul(v[j], s)]
VDivS(v, s) == [j \in 1..Len(v) |-> FDiv(v[j], s)]
VAdd(u, v) == [j \in 1..Len(u) |-> FAdd(u[j], v[j])]
VSub(u, v) == [j \in 1..Len(u) |-> FSub(u[j], v[j])]
VSq(v) == [j \in 1..Len(v) |-> FMul(v[j], v[j])]
Dot(u, v) == FSum([j \in 1..Len(u) |-> FMul(u[j], v[j])])

\* torch.norm(row): L2 norm
Norm(v) == FSqrt(FSum(VSq(v)))
\* torch.norm(tsr, dim=1)
RowNorms(M) == [i \in 1..Len(M) |-> Norm(M[i])]

Transpose(M, cols) == [j \in 1..cols |-> [i \in 1..Len(M) |-> M[i][j]]]
\* torch.matmul(A, B), B given with its number of columns
MatMul(A, B, cols) ==
  [i \in 1..Len(A) |-> [j \in 1..cols |-> Dot(A[i], [r \in 1..Len(B) |-> B[r][j]])]]

\* torch.sum(M, dim=0) of a matrix with `cols` columns
SumRows(M, cols) == [j \in 1..cols |-> FSum([i \in 1..Len(M) |-> M[i][j]])]
\* torch.mean(M, dim=0): NaN in every column when M has no rows (0/0)
MeanRows(M, cols) == VDivS(SumRows(M, cols), I(Len(M)))

\* the element of a one-element set; {e : x \in {v}} evaluates v once
Only(S) == CHOOSE x \in S : TRUE

HasBad(v) == \E j \in 1..Len(v) : ~IsFin(v[j])

\* torch.max(v) of a non-empty vector: NaN if any element is NaN
FMax(v) ==
  IF \E j \in 1..Len(v) : IsNaN(v[j]) THEN NaN
  ELSE LET j == CHOOSE j \in 1..Len(v) : \A l \in 1..Len(v) : ~FGt(v[l], v[j])
       IN v[j]

\* torch.median(v) of a non-empty vector: the lower of the two middle
\* elements, NaN if any element is NaN
FMedian(v) ==
  IF \E j \in 1..Len(v) : IsNaN(v[j]) THEN NaN
  ELSE LET m == (Len(v) - 1) \div 2
           j == CHOOSE j \in 1..Len(v) :
                  /\ Cardinality({l \in 1..Len(v) : FGt(v[j], v[l])}) <= m
                  /\ Cardinality({l \in 1..Len(v) : ~FGt(v[l], v[j])}) > m
       IN v[j]

\* [torch.mean(x).item(), torch.max(x).item(), torch.median(x).item()]
NormStats(norms) == <<FDiv(FSum(norms), I(Len(norms))), FMax(norms), FMedian(norms)>>

\* ---------------------------------------------------------------- clipping
\* torch.clamp(x, max=1.0); NaN stays NaN
ClampMax1(x) == IF FGt(x, I(1)) THEN I(1) ELSE x

\* clip_column with the clamp forgotten: every row is scaled by clip/norm
clip_column_unclamped(tsr, c) ==
  LET norms == RowNorms(tsr)
  IN [r \in 1..Len(tsr) |-> VScale(tsr[r], FDiv(c, norms[r]))]

\* clip_column(tsr, clip, inplace=False): the returned tensor
clip_column(tsr, c) ==
  LET norms == RowNorms(tsr)
      scale == [r \in 1..Len(tsr) |-> ClampMax1(FDiv(c, norms[r]))]
  IN [r \in 1..Len(tsr) |-> VScale(tsr[r], scale[r])]

\* clip_column(tsr, clip, inplace=False) evaluates clip/norms for every row
\* before clamping: TRUE when one of those quotients has a zero denominator
clip_column_divides_by_zero(tsr, c) ==
  \E r \in 1..Len(tsr) : IsZero(Norm(tsr[r]))

\* inplace_clipping(matrix, clip): the contents of matrix after the call
inplace_clipping(matrix, c) ==
  [r \in 1..Len(matrix) |->
     LET col == matrix[r]
         col_norm == FSqrt(FSum(VSq(col)))
     IN IF FGt(col_norm, c) THEN VDivS(col, FDiv(col_norm, c)) ELSE col]

\* inplace_clipping divides only inside the branch col_norm > clip: TRUE
\* when col_norm/clip or col/(col_norm/clip) has a zero denominator
inplace_clipping_divides_by_zero(matrix, c) ==
  \E r \in 1..Len(matrix) :
     LET col_norm == Norm(matrix[r])
     IN FGt(col_norm, c) /\ (IsZero(c) \/ IsZero(FDiv(col_norm, c)))

\* ------------------------------------------------------- program constants
\* the basis P (n_components x number of parameters), rows orthonormal
P == << <<Q(3, 5), Q(4, 5), I(0), I(0)>>,
        <<I(0), I(0), I(1), I(0)>> >>
BasisK == Len(P)
ParamD == Len(P[1])

\* shapes of model.named_parameters(), in iteration order
ParamShapes == << <<1, 2>>, <<1>>, <<1>> >>
NParams == Len(ParamShapes)

\* --clip and the noise multiplier returned by get_sigma
ClipSet == {I(0 - 1), I(0), I(1), Q(5, 2), I(20)}
SigmaSet == {I(0), I(2)}
Seeds == {1, 2}

\* per-example gradients (rows of param.grad_batch, flattened)
IRow(v) == [j \in 1..Len(v) |-> I(v[j])]
GradRows == {IRow(<<0, 0, 0, 0>>), IRow(<<3, 4, 0, 1>>),
             IRow(<<4, 0 - 3, 0, 2>>), IRow(<<3, 4, 12, 0>>)}
\* rows of an embedding handed to the clipping kernels
EmbRows == {IRow(<<0, 0>>), IRow(<<3, 4>>), IRow(<<0, 1>>), IRow(<<0 - 5, 12>>)}

SeqsUpTo(S, n) == UNION {[1..m -> S] : m \in 0..n}

\* ------------------------------------------------- update_grad/update_param
RECURSIVE Prod(_)
Prod(shape) == IF shape = <<>> THEN 1 ELSE Head(shape) * Prod(Tail(shape))

\* v[a:b] with Python's clamping of the slice to the length of v
PySlice(v, a, b) ==
  LET hi == IF b > Len(v) THEN Len(v) ELSE b
  IN IF a >= hi THEN <<>> ELSE SubSeq(v, a + 1, hi)

\* the loop over named_parameters() shared by update_grad and update_param,
\* from parameter p and offset idx on; reshape raises when the slice does not
\* hold `size` elements, and what was written before stays written
RECURSIVE SliceLoop(_, _, _, _, _)
SliceLoop(store, vec, p, idx, written) ==
  IF p > NParams
  THEN [store |-> store, written |-> written, raised |-> FALSE]
  ELSE LET size == Prod(ParamShapes[p])
           sl == PySlice(vec, idx, idx + size)
       IN IF Len(sl) # size
          THEN [store |-> store, written |-> written, raised |-> TRUE]
          ELSE SliceLoop([store EXCEPT ![p] = sl], vec, p + 1, idx + size,
                         written \cup {p})

\* update_grad starting its loop at the second parameter
update_grad_skip_first(store, grad_vec) ==
  SliceLoop(store, grad_vec, 2, Prod(ParamShapes[1]), {})

update_grad(store, grad_vec) == SliceLoop(store, grad_vec, 1, 0, {})

update_param(store, param_vec) == SliceLoop(store, param_vec, 1, 0, {})

\* -------------------------------------------------------- P_SGD_DP, P_SGD
\* embedding = torch.matmul(grad, P.T)
project(grad) == MatMul(grad, Transpose(P, ParamD), BasisK)

\* cur_approx, cur_target, cur_error
cur_error_of(grad) ==
  LET cur_approx == MatMul(<<MeanRows(project(grad), BasisK)>>, P, ParamD)[1]
      cur_target == MeanRows(grad, ParamD)
  IN FDiv(FSum(VSq(VSub(cur_approx, cur_target))), FSum(VSq(cur_target)))

\* avg_clipped_embedding = torch.sum(clipped_embedding, dim=0) / embedding.shape[0]
avg_clipped_embedding(clipped, n) == VDivS(SumRows(clipped, BasisK), I(n))

\* noise_multiplier * clip / embedding.shape[0]
noise_std(sigma, c, n) == FDiv(FMul(sigma, c), I(n))

\* the default generator: the j-th standard normal sample after state g
Z(g) == ((g * 7 + 3) % 5) - 2
\* torch.normal(0, std, size=clipped_theta.shape) drawn at generator state g
torch_normal(std, g) == [j \in 1..BasisK |-> FMul(std, I(Z(g + j - 1)))]

\* noisy_grad = torch.matmul(clipped_theta.view(1, -1), P).reshape(-1)
reconstruct(theta) == MatMul(<<theta>>, P, ParamD)[1]

\* P_SGD: grad_proj = P^T (P grad), the vector handed to update_grad
P_SGD_grad_proj(g) ==
  LET gk == [r \in 1..BasisK |-> Dot(P[r], g)]
  IN [j \in 1..ParamD |-> FSum([r \in 1..BasisK |-> FMul(P[r][j], gk[r])])]

\* the whole of P_SGD_DP up to noisy_grad, for a non-empty batch, with the
\* noise drawn at generator state g
P_SGD_DP_noisy_grad(g_batch, c, sigma, g) ==
  Only({ Only({ Only({
      reconstruct(VAdd(theta, torch_normal(noise_std(sigma, c, Len(emb)), g)))
        : theta \in {avg_clipped_embedding(clipped, Len(emb))} })
        : clipped \in {clip_column(emb, c)} })
        : emb \in {project(g_batch)} })

\* ------------------------------------------------------------------- state
VARIABLES
  pc,                 \* position in train / P_SGD_DP, or in a direct call
  err,                \* exception raised, "none" if none
  clip,               \* args.clip
  noise_multiplier,   \* sigma from get_sigma
  gen,                \* state of torch's default generator
  i,                  \* index of the current batch in train's loop
  grad,               \* gk: the per-example gradient batch
  paramGrad,          \* param.grad of every parameter, flattened
  gradOrigin,         \* what last wrote param.grad: <<kind, batch index>>
  embedding, cur_error, org_norms_stat, clipped_embedding,
  clipped_norms_stat, clipped_theta, theta_noise, noisy_grad,
  steps,              \* number of optimizer.step() calls so far
  trace,              \* stages of P_SGD_DP executed for the current batch
  tsr0,               \* direct calls of the clipping kernels: the input
  tsr,                \* argument object of clip_column(inplace=False)
  ret,                \* value returned by clip_column(inplace=False)
  matrix,             \* argument object of clip_column(inplace=True)
  called,             \* direct calls already made
  zdiv,               \* kernels that formed a quotient with denominator 0
  vecArg,             \* vector handed to update_grad / update_param
  paramData,          \* param.data of every parameter, flattened
  runs,               \* two runs of the step sequence from one seed
  feed                \* the batch sequence both runs process

locals == <<grad, embedding, cur_error, org_norms_stat, clipped_embedding,
            clipped_norms_stat, clipped_theta, theta_noise, noisy_grad>>
loopVars == <<gen, i, steps, trace>>
kernelVars == <<tsr0, tsr, ret, matrix, zdiv>>
runVars == <<runs, feed>>
vars == <<pc, err, clip, noise_multiplier, paramGrad, gradOrigin, called,
          vecArg, paramData, locals, loopVars, kernelVars, runVars>>

Nil == <<>>
NoGrad == [p \in 1..NParams |-> <<>>]
NoOrigin == [p \in 1..NParams |-> <<"none", 0>>]
\* the part of a flat vector that belongs to parameter p, in the order in
\* which get_model_grad_vec / get_model_grad_vec_batch concatenate
RECURSIVE Offset(_)
Offset(p) == IF p = 1 THEN 0 ELSE Offset(p - 1) + Prod(ParamShapes[p - 1])
Slices(vec) ==
  [p \in 1..NParams |-> PySlice(vec, Offset(p), Offset(p) + Prod(ParamShapes[p]))]

LocalsNil ==
  /\ grad = Nil /\ embedding = Nil /\ cur_error = Nil /\ org_norms_stat = Nil
  /\ clipped_embedding = Nil /\ clipped_norms_stat = Nil
  /\ clipped_theta = Nil /\ theta_noise = Nil /\ noisy_grad = Nil
KernelNil == tsr0 = Nil /\ tsr = Nil /\ ret = Nil /\ matrix = Nil /\ zdiv = {}
RunNil == runs = Nil /\ feed = Nil

\* ------------------------------------------------------ the training loop
\* main(): set_seed(args.randomseed), parameters without gradients yet
Init ==
  /\ pc = "loop" /\ err = "none"
  /\ clip \in ClipSet /\ noise_multiplier \in SigmaSet
  /\ gen \in Seeds
  /\ i = 0 /\ steps = 0 /\ trace = <<>>
  /\ paramGrad = NoGrad /\ gradOrigin = NoOrigin
  /\ LocalsNil /\ KernelNil /\ RunNil
  /\ called = {} /\ vecArg = Nil /\ paramData = Nil

Fixed == UNCHANGED <<clip, noise_multiplier, called, vecArg, paramData,
                     kernelVars, runVars>>

\* train: optimizer.zero_grad(); loss.backward() under BatchGrad;
\* gk = get_model_grad_vec_batch(model); call P_SGD_DP
Backward ==
  /\ pc = "loop" /\ i < MaxBatches
  /\ \E gk \in SeqsUpTo(GradRows, MaxRows) :
       /\ grad' = gk
       /\ paramGrad' = Slices(SumRows(gk, ParamD))
  /\ gradOrigin' = [p \in 1..NParams |-> <<"backward", i>>]
  /\ trace' = <<>>
  /\ pc' = "project"
  /\ UNCHANGED <<err, gen, i, steps, embedding, cur_error, org_norms_stat,
                 clipped_embedding, clipped_norms_stat, clipped_theta,
                 theta_noise, noisy_grad>>
  /\ Fixed

Raise(kind) == pc' = "raised" /\ err' = kind

\* embedding = grad P^T, and the approximation-error diagnostics
Project ==
  /\ pc = "project"
  /\ embedding' = project(grad)
  /\ cur_error' = cur_error_of(grad)
  /\ trace' = Append(trace, "project")
  /\ pc' = "prestats"
  /\ UNCHANGED <<err, gen, i, steps, grad, paramGrad, gradOrigin,
                 org_norms_stat, clipped_embedding, clipped_norms_stat,
                 clipped_theta, theta_noise, noisy_grad>>
  /\ Fixed

\* embedding_norms and org_norms_stat; torch.max of an empty tensor raises
PreStats ==
  /\ pc = "prestats"
  /\ IF Len(embedding) = 0
     THEN /\ Raise("RuntimeError")
          /\ UNCHANGED <<org_norms_stat, trace>>
     ELSE /\ org_norms_stat' = NormStats(RowNorms(embedding))
          /\ trace' = Append(trace, "prestats")
          /\ pc' = "clip" /\ err' = err
  /\ UNCHANGED <<gen, i, steps, grad, paramGrad, gradOrigin, embedding,
                 cur_error, clipped_embedding, clipped_norms_stat,
                 clipped_theta, theta_noise, noisy_grad>>
  /\ Fixed

\* clipped_embedding = clip_column(embedding, clip=clip, inplace=False)
Clip ==
  /\ pc = "clip"
  /\ clipped_embedding' = clip_column(embedding, clip)
  /\ trace' = Append(trace, "clip")
  /\ pc' = "poststats"
  /\ UNCHANGED <<err, gen, i, steps, grad, paramGrad, gradOrigin, embedding,
                 cur_error, org_norms_stat, clipped_norms_stat,
                 clipped_theta, theta_noise, noisy_grad>>
  /\ Fixed

\* clipped_norms and clipped_norms_stat
PostStats ==
  /\ pc = "poststats"
  /\ clipped_norms_stat' = NormStats(RowNorms(clipped_embedding))
  /\ trace' = Append(trace, "poststats")
  /\ pc' = "aggregate"
  /\ UNCHANGED <<err, gen, i, steps, grad, paramGrad, gradOrigin, embedding,
                 cur_error, org_norms_stat, clipped_embedding,
                 clipped_theta, theta_noise, noisy_grad>>
  /\ Fixed

\* avg_clipped_embedding and clipped_theta
Aggregate ==
  /\ pc = "aggregate"
  /\ clipped_theta' = avg_clipped_embedding(clipped_embedding, Len(embedding))
  /\ trace' = Append(trace, "aggregate")
  /\ pc' = "noise"
  /\ UNCHANGED <<err, gen, i, steps, grad, paramGrad, gradOrigin, embedding,
                 cur_error, org_norms_stat, clipped_embedding,
                 clipped_norms_stat, theta_noise, noisy_grad>>
  /\ Fixed

\* theta_noise = torch.normal(0, std, ...) from the default generator, which
\* raises for std < 0; clipped_theta += theta_noise
Noise ==
  /\ pc = "noise"
  /\ LET std == noise_std(noise_multiplier, clip, Len(embedding))
     IN IF FGt(I(0), std)
        THEN /\ Raise("RuntimeError")
             /\ UNCHANGED <<theta_noise, clipped_theta, gen, trace>>
        ELSE /\ theta_noise' = torch_normal(std, gen)
             /\ clipped_theta' = VAdd(clipped_theta, theta_noise')
             /\ gen' = gen + BasisK
             /\ trace' = Append(trace, "noise")
             /\ pc' = "reconstruct" /\ err' = err
  /\ UNCHANGED <<i, steps, grad, paramGrad, gradOrigin, embedding, cur_error,
                 org_norms_stat, clipped_embedding, clipped_norms_stat,
                 noisy_grad>>
  /\ Fixed

\* noisy_grad = clipped_theta P
Reconstruct ==
  /\ pc = "reconstruct"
  /\ noisy_grad' = reconstruct(clipped_theta)
  /\ trace' = Append(trace, "reconstruct")
  /\ pc' = "inflate"
  /\ UNCHANGED <<err, gen, i, steps, grad, paramGrad, gradOrigin, embedding,
                 cur_error, org_norms_stat, clipped_embedding,
                 clipped_norms_stat, clipped_theta, theta_noise>>
  /\ Fixed

\* update_grad(model, noisy_grad)
Inflate ==
  /\ pc = "inflate"
  /\ LET res == update_grad(paramGrad, noisy_grad)
     IN /\ paramGrad' = res.store
        /\ gradOrigin' = [p \in 1..NParams |->
                            IF p \in res.written THEN <<"privatized", i>>
                            ELSE gradOrigin[p]]
        /\ IF res.raised
           THEN Raise("RuntimeError") /\ trace' = trace
           ELSE pc' = "optstep" /\ err' = err
                /\ trace' = Append(trace, "inflate")
  /\ UNCHANGED <<gen, i, steps, locals>>
  /\ Fixed

\* P_SGD_DP without its optimizer.step() call
OptimizerStep_omitted ==
  /\ pc = "optstep"
  /\ steps' = steps
  /\ trace' = Append(trace, "step")
  /\ pc' = "return"
  /\ UNCHANGED <<err, gen, i, paramGrad, gradOrigin, locals>>
  /\ Fixed

\* optimizer.step(), the last statement of P_SGD_DP before its return
OptimizerStep ==
  /\ pc = "optstep"
  /\ steps' = steps + 1
  /\ trace' = Append(trace, "step")
  /\ pc' = "return"
  /\ UNCHANGED <<err, gen, i, paramGrad, gradOrigin, locals>>
  /\ Fixed

\* return org_norms_stat, clipped_norms_stat; train goes on to the next batch
Return ==
  /\ pc = "return"
  /\ grad' = Nil /\ embedding' = Nil /\ cur_error' = Nil
  /\ org_norms_stat' = Nil /\ clipped_embedding' = Nil
  /\ clipped_norms_stat' = Nil /\ clipped_theta' = Nil
  /\ theta_noise' = Nil /\ noisy_grad' = Nil
  /\ i' = i + 1
  /\ pc' = "loop"
  /\ UNCHANGED <<err, gen, steps, trace, paramGrad, gradOrigin>>
  /\ Fixed

\* the loader is exhausted: train_loss.append, train_acc.append
EndEpoch ==
  /\ pc = "loop"
  /\ pc' = "done"
  /\ UNCHANGED <<err, gen, i, steps, trace, paramGrad, gradOrigin, locals>>
  /\ Fixed

Next ==
  \/ Backward \/ Project \/ PreStats \/ Clip \/ PostStats \/ Aggregate
  \/ Noise \/ Reconstruct \/ Inflate \/ OptimizerStep \/ Return \/ EndEpoch

Spec == Init /\ [][Next]_vars

\* ------------------------------------------- direct calls of the kernels
LoopNil ==
  /\ gen = 0 /\ i = 0 /\ steps = 0 /\ trace = <<>> /\ LocalsNil
  /\ noise_multiplier = I(0)

InitClip ==
  /\ pc = "call" /\ err = "none"
  /\ clip \in ClipSet
  /\ tsr0 \in SeqsUpTo(EmbRows, MaxRows)
  /\ tsr = tsr0 /\ matrix = tsr0 /\ ret = Nil
  /\ called = {} /\ zdiv = {}
  /\ paramGrad = NoGrad /\ gradOrigin = NoOrigin
  /\ vecArg = Nil /\ paramData = Nil
  /\ LoopNil /\ RunNil

\* clip_column(tsr, clip, inplace=False): builds and returns a new tensor
CallClipColumn ==
  /\ pc = "call" /\ "functional" \notin called
  /\ ret' = clip_column(tsr, clip)
  /\ called' = called \cup {"functional"}
  /\ zdiv' = zdiv \cup (IF clip_column_divides_by_zero(tsr, clip)
                        THEN {"functional"} ELSE {})
  /\ UNCHANGED <<pc, err, clip, noise_multiplier, paramGrad, gradOrigin,
                 vecArg, paramData, locals, loopVars, tsr0, tsr, matrix,
                 runVars>>

\* clip_column(matrix, clip, inplace=True): inplace_clipping, returns None
CallClipColumnInplace ==
  /\ pc = "call" /\ "inplace" \notin called
  /\ matrix' = inplace_clipping(matrix, clip)
  /\ called' = called \cup {"inplace"}
  /\ zdiv' = zdiv \cup (IF inplace_clipping_divides_by_zero(matrix, clip)
                        THEN {"inplace"} ELSE {})
  /\ UNCHANGED <<pc, err, clip, noise_multiplier, paramGrad, gradOrigin,
                 vecArg, paramData, locals, loopVars, tsr0, tsr, ret,
                 runVars>>

NextClip == CallClipColumn \/ CallClipColumnInplace

SpecClip == InitClip /\ [][NextClip]_vars

\* ------------------------------- direct calls of update_grad/update_param
VecVals == {I(7), I(9)}
OldStore == [p \in 1..NParams |-> [j \in 1..Prod(ParamShapes[p]) |-> I(0)]]

InitInflate ==
  /\ pc = "call" /\ err = "none"
  /\ vecArg \in SeqsUpTo(VecVals, ParamD + MaxExtra)
  /\ paramGrad = OldStore /\ paramData = OldStore
  /\ gradOrigin = [p \in 1..NParams |-> <<"backward", 0>>]
  /\ called = {}
  /\ clip = I(1)
  /\ LoopNil /\ KernelNil /\ RunNil

CallUpdateGrad ==
  /\ pc = "call" /\ "update_grad" \notin called
  /\ LET res == update_grad(paramGrad, vecArg)
     IN /\ paramGrad' = res.store
        /\ gradOrigin' = [p \in 1..NParams |->
                            IF p \in res.written THEN <<"vector", 0>>
                            ELSE gradOrigin[p]]
        /\ err' = IF res.raised THEN "RuntimeError" ELSE err
  /\ called' = called \cup {"update_grad"}
  /\ UNCHANGED <<pc, clip, noise_multiplier, vecArg, paramData, locals,
                 loopVars, kernelVars, runVars>>

CallUpdateParam ==
  /\ pc = "call" /\ "update_param" \notin called
  /\ LET res == update_param(paramData, vecArg)
     IN /\ paramData' = res.store
        /\ err' = IF res.raised THEN "RuntimeError" ELSE err
  /\ called' = called \cup {"update_param"}
  /\ UNCHANGED <<pc, clip, noise_multiplier, vecArg, paramGrad, gradOrigin,
                 locals, loopVars, kernelVars, runVars>>

NextInflate == CallUpdateGrad \/ CallUpdateParam

SpecInflate == InitInflate /\ [][NextInflate]_vars

\* --------------------------------- two runs of the steps from one seed
RunIds == {"A", "B"}
FeedRows == {IRow(<<3, 4, 0, 1>>), IRow(<<3, 4, 12, 0>>)}
FeedBatches == SeqsUpTo(FeedRows, MaxRows) \ {<<>>}
RunClips == {c \in ClipSet : FGt(c, I(0))}

\* set_seed(args.randomseed) in both runs, args.randomseed = 1
InitRuns ==
  /\ pc = "runs" /\ err = "none"
  /\ clip \in RunClips /\ noise_multiplier \in SigmaSet
  /\ feed \in [1..MaxBatches -> FeedBatches]
  /\ runs = [r \in RunIds |-> [gen |-> 1, out |-> <<>>, ambient |-> 0]]
  /\ gen = 0 /\ i = 0 /\ steps = 0 /\ trace = <<>> /\ LocalsNil
  /\ paramGrad = NoGrad /\ gradOrigin = NoOrigin
  /\ called = {} /\ vecArg = Nil /\ paramData = Nil
  /\ KernelNil

\* another part of the program draws once from the default generator
AmbientDraw(r) ==
  /\ pc = "runs" /\ runs[r].ambient < MaxAmbient
  /\ runs' = [runs EXCEPT ![r].gen = @ + 1, ![r].ambient = @ + 1]
  /\ UNCHANGED <<pc, err, clip, noise_multiplier, paramGrad, gradOrigin,
                 called, vecArg, paramData, locals, loopVars, kernelVars,
                 feed>>

\* run r executes P_SGD_DP on its next batch: the noise comes from the
\* default generator in whatever state it is, update_grad stores noisy_grad
RunStep(r) ==
  /\ pc = "runs" /\ Len(runs[r].out) < MaxBatches
  /\ \E ng \in {P_SGD_DP_noisy_grad(feed[Len(runs[r].out) + 1], clip,
                                       noise_multiplier, runs[r].gen)} :
       runs' = [runs EXCEPT ![r].out = Append(@, Slices(ng)),
                            ![r].gen = @ + BasisK]
  /\ UNCHANGED <<pc, err, clip, noise_multiplier, paramGrad, gradOrigin,
                 called, vecArg, paramData, locals, loopVars, kernelVars,
                 feed>>

NextRuns == \E r \in RunIds : AmbientDraw(r) \/ RunStep(r)

SpecRuns == InitRuns /\ [][NextRuns]_vars

\* ------------------------------------------------------------- properties
Zero == I(0)
Range(f) == {f[x] : x \in DOMAIN f}
InStep == pc \in {"project", "prestats", "clip", "poststats", "aggregate",
                  "noise", "reconstruct", "inflate", "optstep", "return"}

\* C1: for a clip bound C > 0, clip_column(inplace=False) returns every row
\* of norm <= C unchanged and every row of norm > C scaled by C/norm, whose
\* norm is then exactly C; every returned row has norm <= C.
Thm_C1 ==
  ("functional" \in called /\ FGt(clip, Zero)) =>
    \A r \in 1..Len(tsr0) :
      LET nrm == Norm(tsr0[r])
      IN /\ FLe(nrm, clip) => ret[r] = tsr0[r]
         /\ FGt(nrm, clip) => /\ ret[r] = VScale(tsr0[r], FDiv(clip, nrm))
                              /\ Norm(ret[r]) = clip
         /\ FLe(Norm(ret[r]), clip)

Wit_C1 ==
  /\ "functional" \in called /\ FGt(clip, Zero)
  /\ \E r \in 1..Len(tsr0) :
       FGt(Norm(tsr0[r]), clip) /\ Norm(ret[r]) = clip /\ ret[r] # tsr0[r]
  /\ \E r \in 1..Len(tsr0) :
       FGt(Norm(tsr0[r]), Zero) /\ FLe(Norm(tsr0[r]), clip) /\ ret[r] = tsr0[r]

\* C2: for C > 0 a zero-norm row comes back unchanged, without NaN or Inf,
\* and neither variant forms a quotient whose denominator is zero.
CE_C2 ==
  FGt(clip, Zero) =>
    /\ \A r \in 1..Len(tsr0) :
         IsZero(Norm(tsr0[r])) =>
           /\ "functional" \in called => ret[r] = tsr0[r] /\ ~HasBad(ret[r])
           /\ "inplace" \in called => matrix[r] = tsr0[r] /\ ~HasBad(matrix[r])
    /\ zdiv = {}

\* C3: for every embedding and clip bound the matrix left by the in-place
\* variant equals the matrix returned by the side-effect-free variant, which
\* leaves its argument as it was.
CE_C3 ==
  called = {"functional", "inplace"} => matrix = ret /\ tsr = tsr0

\* C4: a step called with C <= 0 fails with InvalidClipBound before it
\* clips, writes gradient storage or steps the optimizer.
CE_C4 ==
  FLe(clip, Zero) =>
    /\ "clip" \notin Range(trace)
    /\ \A p \in 1..NParams : gradOrigin[p][1] # "privatized"
    /\ steps = 0
    /\ pc = "raised" => err = "InvalidClipBound"

\* C5: a step called with an empty batch fails with EmptyBatch before it
\* takes a mean over zero rows, writes gradient storage or steps.
CE_C5 ==
  (InStep /\ pc # "project" /\ Len(grad) = 0) =>
    /\ pc = "raised" /\ err = "EmptyBatch"
    /\ cur_error = Nil

\* C6: update_grad / update_param given a vector whose length differs from
\* the total element count fail with ShapeMismatch and write nothing.
CE_C6 ==
  Len(vecArg) # ParamD =>
    /\ "update_grad" \in called => err = "ShapeMismatch" /\ paramGrad = OldStore
    /\ "update_param" \in called => err = "ShapeMismatch" /\ paramData = OldStore

Stages == <<"project", "prestats", "clip", "poststats", "aggregate", "noise",
            "reconstruct", "inflate", "step">>

CE_C8 ==
  \A j \in 1..Len(runs["A"].out) :
    j <= Len(runs["B"].out) => runs["A"].out[j] = runs["B"].out[j]

\* C9: with sigma = 0 and C at least every row norm of the embedding, the
\* gradient P_SGD_DP stores is what P_SGD stores for the mean gradient.
CE_C9 ==
  (/\ pc = "optstep" /\ IsZero(noise_multiplier)
   /\ \A r \in 1..Len(embedding) : FLe(Norm(embedding[r]), clip)) =>
    paramGrad = Slices(P_SGD_grad_proj(MeanRows(grad, ParamD)))

\* C10: when optimizer.step() runs, param.grad of every parameter is its
\* slice of the clipped, noised, reconstructed gradient of the current
\* batch, written for this batch; the optimizer steps once per batch.
Thm_C10 ==
  /\ pc = "optstep" =>
       \A p \in 1..NParams :
         /\ paramGrad[p] =
              Slices(P_SGD_DP_noisy_grad(grad, clip, noise_multiplier,
                                         gen - BasisK))[p]
         /\ gradOrigin[p] = <<"privatized", i>>
  /\ steps = IF pc = "return" THEN i + 1 ELSE i

Wit_C10 ==
  /\ pc = "optstep" /\ i = 1 /\ steps = 1
  /\ FGt(clip, Zero) /\ FGt(noise_multiplier, Zero)
  /\ \E r \in 1..Len(embedding) : FGt(Norm(embedding[r]), clip)
  /\ paramGrad # Slices(SumRows(grad, ParamD))
====
